---- MODULE Spec2Model ----
(***************************************************************************)
(* File sharing system: the Upload Handler, the Download Handler and the   *)
(* Cleanup Sweeper (three AWS Lambda handlers) over one S3 bucket.         *)
(*                                                                         *)
(* The bucket is a map from keys to object bodies.  A key "{id}/{name}"    *)
(* is the pair <<id, name>>.  Every store call is one atomic step; a       *)
(* handler is a sequence of such steps, so that invocations interleave.    *)
(* Time is in seconds.                                                     *)
(***************************************************************************)
EXTENDS Integers, Sequences, FiniteSets, TLC

VARIABLES
    store,      \* the bucket: [present keys -> body]
    now,        \* the clock read by datetime.utcnow()
    ticks,      \* number of clock advances taken so far (bounds the model)
    nextId,     \* the next fresh uuid4
    up,         \* the Upload Handler invocation in progress, and its response
    upCreds,    \* presigned POST credentials handed to clients
    dl,         \* the Download Handler invocation in progress, and its response
    sw,         \* the Cleanup Sweeper invocation in progress, and its response
    peer        \* a second Cleanup Sweeper invocation, running at the same time

vars == <<store, now, ticks, nextId, up, upCreds, dl, sw, peer>>

----------------------------------------------------------------------------
(* Bounds of the model *)

MaxIds == 2
MaxTicks == 2

----------------------------------------------------------------------------
(* Configuration of the handlers *)

MAX_FILE_SIZE == 10 * 1024 * 1024

ALLOWED_CONTENT_TYPES ==
    { "image/jpeg", "image/png", "image/gif", "image/webp",
      "application/pdf", "application/msword",
      "application/vnd.openxmlformats-officedocument.wordprocessingml.document",
      "text/plain", "text/csv", "application/zip", "application/x-zip-compressed",
      "application/vnd.ms-excel",
      "application/vnd.openxmlformats-officedocument.spreadsheetml.sheet",
      "application/vnd.ms-powerpoint",
      "application/vnd.openxmlformats-officedocument.presentationml.presentation",
      "video/mp4", "video/quicktime", "audio/mpeg", "audio/mp4" }

UPLOAD_URL_EXPIRY == 300
MAX_RETRIES == 3
DOWNLOAD_URL_EXPIRY == 900
DOWNLOAD_MAX_RETRIES == 3

\* timedelta(hours=24)
RETENTION == 24 * 3600

\* error codes of botocore's ClientError that the retry loops treat as transient
TransientCodes == {"SlowDown", "InternalError", "ServiceUnavailable"}

\* outcomes of one store call: success, or a ClientError with this code
ErrorCodes == {"SlowDown", "AccessDenied"}

----------------------------------------------------------------------------
(* Values *)

\* Python's None, where a string is expected
NoneV == "None"

\* datetime.isoformat(): the string form of a timestamp
isoformat(t) == [kind |-> "iso", t |-> t]

\* a JSON field that is absent (or null), and a string that is no ISO timestamp
MissingTs == [kind |-> "none", t |-> 0]
BadTs == [kind |-> "bad", t |-> 0]

\* datetime.fromisoformat(): the timestamp of an ISO string, or an exception
fromisoformat(s) ==
    IF s.kind = "iso" THEN [ok |-> TRUE, t |-> s.t] ELSE [ok |-> FALSE, t |-> 0]

\* file_size as it arrives in the request body (a JSON value)
IntV(n) == [type |-> "int", val |-> n]
NoSize == [type |-> "none", val |-> 0]

\* Python truthiness of a JSON value: None, 0, 0.0, "" and False are falsy
Falsy(v) == v.type = "none" \/ (v.type \in {"int", "float", "bool"} /\ v.val = 0)

\* isinstance(v, int): bool is a subclass of int
IsInstanceInt(v) == v.type \in {"int", "bool"}

\* str(file_size)
str(v) == [type |-> IF v.type = "bool" THEN "str_bool" ELSE "str_num", val |-> v.val]

\* a metadata dict; a key that is absent reads as None through dict.get
EmptyDoc ==
    [original_filename |-> NoneV, content_type |-> NoneV,
     expiration_time |-> MissingTs, upload_time |-> MissingTs, file_size |-> NoSize]

\* json.dumps of a dict: the bytes of an object
json_dumps(d) == [kind |-> "json", doc |-> d]

\* bytes that are no JSON document
RawBytes == [kind |-> "raw", doc |-> EmptyDoc]

\* json.loads of an object's bytes: the dict, or an exception
json_loads(b) ==
    IF b.kind = "json" THEN [ok |-> TRUE, doc |-> b.doc] ELSE [ok |-> FALSE, doc |-> EmptyDoc]

\* the two keys of an item
metadata_key(file_id) == <<file_id, "metadata.json">>
s3_key(file_id, filename) == <<file_id, filename>>

\* keys under the prefix "{file_id}/"
KeysUnder(s, file_id) == {k \in DOMAIN s : k[1] = file_id}

\* put_object, and delete_objects of a set of keys
PutObject(s, k, b) == [x \in DOMAIN s \cup {k} |-> IF x = k THEN b ELSE s[x]]
DeleteObjects(s, ks) == [x \in DOMAIN s \ ks |-> s[x]]

NoCred == [key |-> <<0, "">>, content_type |-> "", expires |-> 0]

----------------------------------------------------------------------------
(* Upload Handler *)

\* faulty variant of Validate: the size limit is not enforced
Validate_no_size_limit(req) ==
    IF req.filename \in {NoneV, ""} THEN "Filename is required"
    ELSE IF req.content_type \in {NoneV, ""} THEN "Content type is required"
    ELSE IF Falsy(req.file_size) \/ ~IsInstanceInt(req.file_size)
        THEN "Valid file size is required"
    ELSE IF req.content_type \notin ALLOWED_CONTENT_TYPES
        THEN "Content type is not allowed"
    ELSE ""

\* faulty variant of Validate: the allow-list is consulted before the size
Validate_allow_list_first(req) ==
    IF req.filename \in {NoneV, ""} THEN "Filename is required"
    ELSE IF req.content_type \in {NoneV, ""} THEN "Content type is required"
    ELSE IF req.content_type \notin ALLOWED_CONTENT_TYPES
        THEN "Content type is not allowed"
    ELSE IF Falsy(req.file_size) \/ ~IsInstanceInt(req.file_size)
        THEN "Valid file size is required"
    ELSE IF req.file_size.val > MAX_FILE_SIZE
        THEN "File size exceeds the maximum limit"
    ELSE ""

\* the validation chain of lambda_handler: the error of the first check
\* that fails, or "" when the request passes all of them
Validate(req) ==
    IF req.filename \in {NoneV, ""} THEN "Filename is required"
    ELSE IF req.content_type \in {NoneV, ""} THEN "Content type is required"
    ELSE IF Falsy(req.file_size) \/ ~IsInstanceInt(req.file_size)
        THEN "Valid file size is required"
    ELSE IF req.file_size.val > MAX_FILE_SIZE
        THEN "File size exceeds the maximum limit"
    ELSE IF req.content_type \notin ALLOWED_CONTENT_TYPES
        THEN "Content type is not allowed"
    ELSE ""

NoReq == [parsed |-> TRUE, filename |-> NoneV, content_type |-> NoneV, file_size |-> NoSize]

\* f"/download/{file_id}" (line 215): the prefix and the identifier
download_path(file_id) == <<"/download/", file_id>>

UpResp(code, err) ==
    [statusCode |-> code, error |-> err, file_id |-> 0, upload_data |-> NoCred,
     download_path |-> <<"", 0>>, expiration_time |-> MissingTs]

UpIdle ==
    [pc |-> "idle", req |-> NoReq, file_id |-> 0, expiration_timestamp |-> MissingTs,
     metadata |-> EmptyDoc, retries |-> 0, put_ok |-> FALSE,
     calls |-> 0, answer |-> "",
     resp |-> UpResp(0, "")]

\* the handler returns: its locals are gone, its response stays; what
\* s3_put_with_retry did (retries, calls, answer) is kept on record
UpDone(u, resp) ==
    [UpIdle EXCEPT !.pc = "done", !.req = u.req, !.put_ok = u.put_ok,
                   !.retries = u.retries, !.calls = u.calls, !.answer = u.answer,
                   !.resp = resp]

\* faulty variant of UploadReceive: the identifier is not drawn afresh, every
\* accepted request gets the same one
UploadReceive_reuses_id(req) ==
    /\ up.pc \in {"idle", "done"}
    /\ LET u == [UpIdle EXCEPT !.req = req] IN
       IF ~req.parsed
       THEN /\ up' = UpDone(u, UpResp(500, "An internal server error occurred"))
            /\ UNCHANGED nextId
       ELSE IF Validate(req) # ""
       THEN /\ up' = UpDone(u, UpResp(400, Validate(req)))
            /\ UNCHANGED nextId
       ELSE /\ nextId <= MaxIds
            /\ up' = [u EXCEPT !.pc = "stamp", !.file_id = 1,
                               !.expiration_timestamp = isoformat(now + RETENTION)]
            /\ nextId' = nextId + 1
    /\ UNCHANGED <<store, now, ticks, upCreds, dl, sw, peer>>

\* lines 122-192: parse the body, validate, mint the identifier and compute
\* the expiration time
UploadReceive(req) ==
    /\ up.pc \in {"idle", "done"}
    /\ LET u == [UpIdle EXCEPT !.req = req] IN
       IF ~req.parsed
       THEN /\ up' = UpDone(u, UpResp(500, "An internal server error occurred"))
            /\ UNCHANGED nextId
       ELSE IF Validate(req) # ""
       THEN /\ up' = UpDone(u, UpResp(400, Validate(req)))
            /\ UNCHANGED nextId
       ELSE /\ nextId <= MaxIds
            /\ up' = [u EXCEPT !.pc = "stamp", !.file_id = nextId,
                               !.expiration_timestamp = isoformat(now + RETENTION)]
            /\ nextId' = nextId + 1
    /\ UNCHANGED <<store, now, ticks, upCreds, dl, sw, peer>>

\* faulty variant of UploadStamp: the record's expiration_time is computed
\* again from the second clock read
UploadStamp_recomputes_expiry ==
    /\ up.pc = "stamp"
    /\ up' = [up EXCEPT !.pc = "put",
                        !.metadata = [original_filename |-> up.req.filename,
                                      content_type |-> up.req.content_type,
                                      expiration_time |-> isoformat(now + RETENTION),
                                      upload_time |-> isoformat(now),
                                      file_size |-> str(up.req.file_size)]]
    /\ UNCHANGED <<store, now, ticks, nextId, upCreds, dl, sw, peer>>

\* lines 194-201: build the metadata dict; upload_time is a second clock read
UploadStamp ==
    /\ up.pc = "stamp"
    /\ up' = [up EXCEPT !.pc = "put",
                        !.metadata = [original_filename |-> up.req.filename,
                                      content_type |-> up.req.content_type,
                                      expiration_time |-> up.expiration_timestamp,
                                      upload_time |-> isoformat(now),
                                      file_size |-> str(up.req.file_size)]]
    /\ UNCHANGED <<store, now, ticks, nextId, upCreds, dl, sw, peer>>

\* faulty variant of PutAfterError: once the retries are used up the error
\* is swallowed instead of raised
PutAfterError_swallows(error_code, retries) ==
    IF error_code \in TransientCodes /\ retries + 1 < MAX_RETRIES THEN "retry"
    ELSE IF error_code \in TransientCodes THEN "swallow"
    ELSE "raise"

\* faulty variant of PutAfterError: every error is retried, whatever its code
PutAfterError_retries_all(error_code, retries) ==
    IF retries + 1 < MAX_RETRIES THEN "retry" ELSE "raise"

\* faulty variant of PutAfterError: an error of a non-transient class is
\* neither retried nor raised
PutAfterError_swallows_fatal(error_code, retries) ==
    IF error_code \in TransientCodes /\ retries + 1 < MAX_RETRIES THEN "retry"
    ELSE IF error_code \in TransientCodes THEN "raise"
    ELSE "swallow"

\* s3_put_with_retry, lines 55-66: what follows a ClientError raised by
\* put_object when `retries` retries were made before it
PutAfterError(error_code, retries) ==
    IF error_code \in TransientCodes /\ retries + 1 < MAX_RETRIES THEN "retry" ELSE "raise"

\* line 58: retries += 1 for an error code of a transient class
RetriesAfter(error_code, retries) ==
    IF error_code \in TransientCodes THEN retries + 1 ELSE retries

\* s3_put_with_retry, one pass of the while loop (lines 37-69), then line 212
\* on: result is "ok" or the error code of the ClientError put_object raises;
\* calls counts the put_object calls, answer is the outcome of the last one
UploadPut(result) ==
    /\ up.pc = "put"
    /\ LET u == [up EXCEPT !.calls = up.calls + 1, !.answer = result,
                           !.retries = RetriesAfter(result, up.retries)]
       IN IF ~(up.retries < MAX_RETRIES)
          THEN \* the loop ends without a return: the function returns None,
               \* which the handler does not look at
               /\ up' = [up EXCEPT !.pc = "presign"]
               /\ UNCHANGED <<store, now>>
          ELSE IF result = "ok"
          THEN \* return True: the counters of the loop are gone
               /\ store' = PutObject(store, metadata_key(up.file_id), json_dumps(up.metadata))
               /\ up' = [u EXCEPT !.pc = "presign", !.put_ok = TRUE,
                                  !.retries = 0, !.calls = 0]
               /\ UNCHANGED now
          ELSE IF PutAfterError(result, up.retries) = "retry"
          THEN \* time.sleep(2 ** retries): the clock moves by Tick alone
               /\ up' = u
               /\ UNCHANGED <<store, now>>
          ELSE IF PutAfterError(result, up.retries) = "raise"
          THEN /\ up' = UpDone(u, UpResp(500, "An internal server error occurred"))
               /\ UNCHANGED <<store, now>>
          ELSE \* neither retried nor raised: the next pass of the loop
               /\ up' = [u EXCEPT !.retries = up.retries + 1]
               /\ UNCHANGED <<store, now>>
    /\ UNCHANGED <<ticks, nextId, upCreds, dl, sw, peer>>

\* faulty variant of UploadPresign: when the signing fails the metadata
\* record is deleted again
UploadPresign_rolls_back(signed) ==
    /\ up.pc = "presign"
    /\ IF signed
       THEN LET cred == [key |-> s3_key(up.file_id, up.req.filename),
                         content_type |-> up.req.content_type,
                         expires |-> now + UPLOAD_URL_EXPIRY]
            IN /\ upCreds' = upCreds \cup {cred}
               /\ up' = UpDone(up, [statusCode |-> 200, error |-> "",
                                    file_id |-> up.file_id, upload_data |-> cred,
                                    download_path |-> download_path(up.file_id),
                                    expiration_time |-> up.expiration_timestamp])
               /\ UNCHANGED store
       ELSE /\ up' = UpDone(up, UpResp(500, "An internal server error occurred"))
            /\ store' = DeleteObjects(store, {metadata_key(up.file_id)})
            /\ UNCHANGED upCreds
    /\ UNCHANGED <<now, ticks, nextId, dl, sw, peer>>

\* generate_upload_url (lines 71-98) and the 200 response (lines 214-231);
\* signed is FALSE when generate_presigned_post raises
UploadPresign(signed) ==
    /\ up.pc = "presign"
    /\ IF signed
       THEN LET cred == [key |-> s3_key(up.file_id, up.req.filename),
                         content_type |-> up.req.content_type,
                         expires |-> now + UPLOAD_URL_EXPIRY]
            IN /\ upCreds' = upCreds \cup {cred}
               /\ up' = UpDone(up, [statusCode |-> 200, error |-> "",
                                    file_id |-> up.file_id, upload_data |-> cred,
                                    download_path |-> download_path(up.file_id),
                                    expiration_time |-> up.expiration_timestamp])
       ELSE /\ up' = UpDone(up, UpResp(500, "An internal server error occurred"))
            /\ UNCHANGED upCreds
    /\ UNCHANGED <<store, now, ticks, nextId, dl, sw, peer>>

----------------------------------------------------------------------------
(* A client holding a presigned POST uploads bytes straight to the bucket *)

\* what a client may send: bytes that are no JSON, a JSON document without
\* expiration_time, one whose expiration_time is no timestamp, and one whose
\* expiration_time is a timestamp of the client's choosing
ClientBodies ==
    { RawBytes,
      json_dumps(EmptyDoc),
      json_dumps([EmptyDoc EXCEPT !.expiration_time = BadTs]),
      json_dumps([EmptyDoc EXCEPT !.expiration_time = isoformat(0)]) }

\* the bucket accepts the POST while the policy has not expired; it is
\* scoped to the exact key (generate_upload_url, lines 82-90).  No handler
\* reads the bytes of a content key, so one body stands for all of them.
ClientPut(cred, body) ==
    /\ cred \in upCreds
    /\ now < cred.expires
    /\ body \in (IF cred.key = metadata_key(cred.key[1]) THEN ClientBodies ELSE {RawBytes})
    /\ store' = PutObject(store, cred.key, body)
    /\ store' # store
    /\ UNCHANGED <<now, ticks, nextId, up, upCreds, dl, sw, peer>>

----------------------------------------------------------------------------
(* Download Handler *)

\* faulty variant of is_file_expired: the comparison is reversed
is_file_expired_reversed(expiration_time, current_time) ==
    LET expiration_datetime == fromisoformat(expiration_time)
    IN IF expiration_datetime.ok THEN current_time < expiration_datetime.t ELSE TRUE

\* faulty variant of is_file_expired: a timestamp that cannot be parsed
\* counts as not expired
is_file_expired_fail_open(expiration_time, current_time) ==
    LET expiration_datetime == fromisoformat(expiration_time)
    IN IF expiration_datetime.ok THEN current_time > expiration_datetime.t ELSE FALSE

\* is_file_expired, lines 66-75
is_file_expired(expiration_time, current_time) ==
    LET expiration_datetime == fromisoformat(expiration_time)
    IN IF expiration_datetime.ok THEN current_time > expiration_datetime.t ELSE TRUE

\* faulty variant of GetAfterError: a key that is not found is tried again
\* like a transient failure
GetAfterError_retries_not_found(error_code, retries) ==
    IF error_code \in TransientCodes \cup {"NoSuchKey"} /\ retries + 1 < DOWNLOAD_MAX_RETRIES
    THEN "retry"
    ELSE IF error_code = "NoSuchKey" THEN "none"
    ELSE "raise"

\* faulty variant of GetAfterError: once the retries are used up the
\* function returns None instead of raising
GetAfterError_gives_up_empty(error_code, retries) ==
    IF error_code = "NoSuchKey" THEN "none"
    ELSE IF error_code \in TransientCodes /\ retries + 1 < DOWNLOAD_MAX_RETRIES THEN "retry"
    ELSE IF error_code \in TransientCodes THEN "none"
    ELSE "raise"

\* s3_get_with_retry, lines 28-43: what follows a ClientError raised by
\* get_object when `retries` retries were made before it
GetAfterError(error_code, retries) ==
    IF error_code = "NoSuchKey" THEN "none"
    ELSE IF error_code \in TransientCodes /\ retries + 1 < DOWNLOAD_MAX_RETRIES THEN "retry"
    ELSE "raise"

\* s3_client.get_object: the body, or a ClientError (NoSuchKey for an
\* absent key, `result` when the call itself fails)
get_object(s, k, result) ==
    IF result # "ok" THEN [code |-> result, body |-> RawBytes]
    ELSE IF k \in DOMAIN s THEN [code |-> "ok", body |-> s[k]]
    ELSE [code |-> "NoSuchKey", body |-> RawBytes]

\* faulty variant of head_object: an absent key is answered like a present
\* one
head_object_always_found(s, k, result) ==
    IF result = "ok" THEN [raised |-> FALSE, response |-> TRUE]
    ELSE [raised |-> TRUE, response |-> FALSE]

\* s3_client.head_object (line 139): a response for a key that is present;
\* botocore raises a ClientError (404) for an absent key, as for any failure
head_object(s, k, result) ==
    IF result = "ok" /\ k \in DOMAIN s THEN [raised |-> FALSE, response |-> TRUE]
    ELSE [raised |-> TRUE, response |-> FALSE]

DlResp(code, err) ==
    [statusCode |-> code, error |-> err, download_url |-> NoCred,
     filename |-> NoneV, content_type |-> NoneV, expiration_time |-> MissingTs]

\* pathParameters of the event: "ok" carries file_id
EventKinds == {"ok", "no_pathParameters", "null_pathParameters", "no_file_id"}

DlIdle ==
    [pc |-> "idle", event |-> "ok", file_id |-> 0, retries |-> 0, metadata |-> EmptyDoc,
     checked |-> FALSE, check_time |-> 0, headed |-> FALSE,
     content_present |-> FALSE, call_failed |-> FALSE,
     calls |-> 0, answer |-> "", ready |-> FALSE, resp |-> DlResp(0, "")]

\* the request is for the identifier the last upload response returned, and
\* the content object of that upload is in the bucket
ReadyFor(file_id) ==
    /\ up.pc = "done" /\ up.resp.statusCode = 200
    /\ up.resp.file_id = file_id
    /\ up.resp.upload_data.key \in DOMAIN store

\* the handler returns; what s3_get_with_retry did (retries, calls, answer)
\* is kept on record
DlDone(d, resp) == [d EXCEPT !.pc = "done", !.resp = resp]

\* lines 96-102: the path parameter; a missing key is a KeyError (400), a
\* null pathParameters a TypeError (500)
DownloadReceive(kind, file_id) ==
    /\ dl.pc \in {"idle", "done"}
    /\ LET d == [DlIdle EXCEPT !.event = kind] IN
       dl' = IF kind \in {"no_pathParameters", "no_file_id"}
             THEN DlDone(d, DlResp(400, "Missing required parameter"))
             ELSE IF kind = "null_pathParameters"
             THEN DlDone(d, DlResp(500, "An internal server error occurred"))
             ELSE [d EXCEPT !.pc = "get", !.file_id = file_id,
                            !.ready = ReadyFor(file_id)]
    /\ UNCHANGED <<store, now, ticks, nextId, up, upCreds, sw, peer>>

\* lines 108-135, once s3_get_with_retry has returned `body`
DownloadAfterGet(d, body, current_time) ==
    LET loaded == json_loads(body)
        metadata == loaded.doc
    IN IF ~loaded.ok
       THEN DlDone(d, DlResp(500, "An internal server error occurred"))
       ELSE IF is_file_expired(metadata.expiration_time, current_time)
       THEN DlDone([d EXCEPT !.metadata = metadata, !.checked = TRUE,
                             !.check_time = current_time],
                   DlResp(404, "File has expired"))
       ELSE [d EXCEPT !.pc = "head", !.metadata = metadata,
                      !.checked = TRUE, !.check_time = current_time]

\* s3_get_with_retry, one pass of the while loop (lines 24-46), then lines
\* 108-135: result is "ok" or the error code of a failing call; calls counts
\* the get_object calls, answer is the outcome of the last one
DownloadGet(result) ==
    /\ dl.pc = "get"
    /\ LET got == get_object(store, metadata_key(dl.file_id), result)
           d == [dl EXCEPT !.calls = dl.calls + 1, !.answer = got.code,
                           !.retries = RetriesAfter(got.code, dl.retries)]
       IN IF ~(dl.retries < DOWNLOAD_MAX_RETRIES)
          THEN \* the loop ends without a return: the function returns None
               /\ dl' = DlDone(dl, DlResp(404, "File not found"))
               /\ UNCHANGED now
          ELSE IF got.code = "ok"
          THEN \* return response: the counters of the loop are gone
               /\ dl' = DownloadAfterGet([d EXCEPT !.retries = 0, !.calls = 0], got.body, now)
               /\ UNCHANGED now
          ELSE IF GetAfterError(got.code, dl.retries) = "none"
          THEN /\ dl' = DlDone(d, DlResp(404, "File not found"))
               /\ UNCHANGED now
          ELSE IF GetAfterError(got.code, dl.retries) = "retry"
          THEN \* time.sleep(2 ** retries): the clock moves by Tick alone
               /\ dl' = d
               /\ UNCHANGED now
          ELSE /\ dl' = DlDone([d EXCEPT !.call_failed = TRUE],
                               DlResp(500, "An internal server error occurred"))
               /\ UNCHANGED now
    /\ UNCHANGED <<store, ticks, nextId, up, upCreds, sw, peer>>

\* faulty variant of DownloadHead: a record whose content object is missing
\* is removed from the bucket
DownloadHead_evicts_orphan(result) ==
    /\ dl.pc = "head"
    /\ LET file_key == s3_key(dl.file_id, dl.metadata.original_filename)
           file_exists_response == head_object(store, file_key, result)
           d == [dl EXCEPT !.headed = TRUE,
                           !.content_present = file_key \in DOMAIN store,
                           !.call_failed = (result # "ok")]
       IN /\ dl' = IF file_exists_response.raised
                   THEN DlDone(d, DlResp(500, "An internal server error occurred"))
                   ELSE IF ~file_exists_response.response
                   THEN DlDone(d, DlResp(404, "File content not found"))
                   ELSE [d EXCEPT !.pc = "presign"]
          /\ store' = IF file_key \in DOMAIN store THEN store
                      ELSE DeleteObjects(store, {metadata_key(dl.file_id)})
    /\ UNCHANGED <<now, ticks, nextId, up, upCreds, sw, peer>>

\* lines 137-150: the content object's existence check
DownloadHead(result) ==
    /\ dl.pc = "head"
    /\ LET file_key == s3_key(dl.file_id, dl.metadata.original_filename)
           file_exists_response == head_object(store, file_key, result)
           d == [dl EXCEPT !.headed = TRUE,
                           !.content_present = file_key \in DOMAIN store,
                           !.call_failed = (result # "ok")]
       IN dl' = IF file_exists_response.raised
                THEN DlDone(d, DlResp(500, "An internal server error occurred"))
                ELSE IF ~file_exists_response.response
                THEN DlDone(d, DlResp(404, "File content not found"))
                ELSE [d EXCEPT !.pc = "presign"]
    /\ UNCHANGED <<store, now, ticks, nextId, up, upCreds, sw, peer>>

\* generate_download_url (lines 48-64) and the 200 response (lines 157-169);
\* signed is FALSE when generate_presigned_url raises
DownloadPresign(signed) ==
    /\ dl.pc = "presign"
    /\ dl' = IF signed
             THEN DlDone(dl, [statusCode |-> 200, error |-> "",
                              download_url |->
                                  [key |-> s3_key(dl.file_id, dl.metadata.original_filename),
                                   content_type |-> "",
                                   expires |-> now + DOWNLOAD_URL_EXPIRY],
                              filename |-> dl.metadata.original_filename,
                              content_type |-> dl.metadata.content_type,
                              expiration_time |-> dl.metadata.expiration_time])
             ELSE DlDone([dl EXCEPT !.call_failed = TRUE],
                         DlResp(500, "An internal server error occurred"))
    /\ UNCHANGED <<store, now, ticks, nextId, up, upCreds, sw, peer>>

----------------------------------------------------------------------------
(* Cleanup Sweeper *)

\* the identifiers of a CommonPrefixes page, in the bucket's listing order
RECURSIVE SortedSeq(_)
SortedSeq(S) ==
    IF S = {} THEN <<>>
    ELSE LET m == CHOOSE x \in S : \A y \in S : x <= y
         IN <<m>> \o SortedSeq(S \ {m})

\* paginate(Delimiter='/') and prefix.rstrip('/'), lines 19-30
ListPrefixes(s) == SortedSeq({k[1] : k \in DOMAIN s})

\* faulty variant of SweepCheck: a record that cannot be read counts as
\* expired
SweepCheck_unreadable_is_expired(body, current_time) ==
    LET loaded == json_loads(body)
        expiration_time == fromisoformat(loaded.doc.expiration_time)
    IN IF ~loaded.ok \/ ~expiration_time.ok THEN "expired"
       ELSE IF current_time > expiration_time.t THEN "expired"
       ELSE "live"

\* lines 39-46 on the bytes of metadata.json: "expired", "live", or "error"
\* when json.loads, metadata['expiration_time'] or fromisoformat raises
SweepCheck(body, current_time) ==
    LET loaded == json_loads(body)
        expiration_time == fromisoformat(loaded.doc.expiration_time)
    IN IF ~loaded.ok \/ ~expiration_time.ok THEN "error"
       ELSE IF current_time > expiration_time.t THEN "expired"
       ELSE "live"

\* faulty variant of ObjectsToDelete: the metadata record alone
ObjectsToDelete_metadata_only(s, file_id) == KeysUnder(s, file_id) \cap {metadata_key(file_id)}

\* lines 50-57: the keys listed under the identifier's prefix
ObjectsToDelete(s, file_id) == KeysUnder(s, file_id)

SwResp(code) == [statusCode |-> code]

SwIdle ==
    [pc |-> "idle", prefixes |-> <<>>, file_id |-> 0, body |-> RawBytes, current_time |-> 0,
     objects_to_delete |-> {}, checked_count |-> 0, deleted_count |-> 0,
     listed |-> {}, examined |-> {}, expired_seen |-> {}, failed |-> {},
     purged |-> {}, store_error |-> FALSE, resp |-> SwResp(0)]

\* the for loops of lines 27-29 move to the next identifier, or end and
\* the handler returns 200 (lines 70-77)
SweepNext(s) ==
    LET t == [s EXCEPT !.file_id = 0, !.body = RawBytes, !.current_time = 0,
                       !.objects_to_delete = {}]
    IN IF s.prefixes = <<>>
       THEN [t EXCEPT !.pc = "done", !.resp = SwResp(200)]
       ELSE [t EXCEPT !.pc = "get", !.file_id = Head(s.prefixes),
                      !.prefixes = Tail(s.prefixes)]

\* faulty variant of SweepItemError: the exception ends the sweep in the
\* outer except
SweepItemError_aborts(s) ==
    [s EXCEPT !.pc = "done", !.failed = s.failed \cup {s.file_id}, !.resp = SwResp(500)]

\* lines 67-68: an exception while processing one identifier is printed and
\* the loop goes on
SweepItemError(s) == SweepNext([s EXCEPT !.failed = s.failed \cup {s.file_id}])

\* lines 15-24 and the first page of line 27; a failing list call reaches
\* the outer except (lines 79-86)
SweepStart(result) ==
    /\ sw.pc \in {"idle", "done"}
    /\ sw' = IF result = "ok"
             THEN SweepNext([SwIdle EXCEPT !.prefixes = ListPrefixes(store),
                                           !.listed = {k[1] : k \in DOMAIN store}])
             ELSE [SwIdle EXCEPT !.pc = "done", !.store_error = TRUE, !.resp = SwResp(500)]
    /\ UNCHANGED <<store, now, ticks, nextId, up, upCreds, dl, peer>>

\* lines 31-46: read the identifier's metadata record and compare its
\* expiration time with the clock
SweepGet(result) ==
    /\ sw.pc = "get"
    /\ LET got == get_object(store, metadata_key(sw.file_id), result)
           s == [sw EXCEPT !.checked_count = sw.checked_count + 1,
                           !.examined = sw.examined \cup {sw.file_id},
                           !.store_error = sw.store_error \/ got.code # "ok"]
       IN sw' = IF got.code # "ok" THEN SweepItemError(s)
                ELSE IF SweepCheck(got.body, now) = "error" THEN SweepItemError(s)
                ELSE IF SweepCheck(got.body, now) = "expired"
                THEN [s EXCEPT !.pc = "list", !.body = got.body, !.current_time = now,
                               !.expired_seen = s.expired_seen \cup {sw.file_id}]
                ELSE SweepNext(s)
    /\ UNCHANGED <<store, now, ticks, nextId, up, upCreds, dl, peer>>

\* lines 50-59: list the keys under the prefix
SweepList(result) ==
    /\ sw.pc = "list"
    /\ sw' = IF result # "ok" THEN SweepItemError([sw EXCEPT !.store_error = TRUE])
             ELSE IF ObjectsToDelete(store, sw.file_id) = {} THEN SweepNext(sw)
             ELSE [sw EXCEPT !.pc = "delete",
                             !.objects_to_delete = ObjectsToDelete(store, sw.file_id)]
    /\ UNCHANGED <<store, now, ticks, nextId, up, upCreds, dl, peer>>

\* lines 60-65: one delete_objects call for the keys listed
SweepDelete(result) ==
    /\ sw.pc = "delete"
    /\ IF result = "ok"
       THEN /\ store' = DeleteObjects(store, sw.objects_to_delete)
            /\ sw' = SweepNext([sw EXCEPT !.deleted_count = sw.deleted_count + 1,
                                          !.purged = sw.purged \cup sw.objects_to_delete])
       ELSE /\ sw' = SweepItemError([sw EXCEPT !.store_error = TRUE])
            /\ UNCHANGED store
    /\ UNCHANGED <<now, ticks, nextId, up, upCreds, dl, peer>>


\* A second invocation of the same handler (the schedule fires again, or the
\* function is invoked by hand, while a sweep is running): the same steps
\* on its own locals, against the same bucket.

\* lines 15-24 and the first page of line 27, second invocation
PeerStart(result) ==
    /\ peer.pc \in {"idle", "done"}
    /\ peer' = IF result = "ok"
               THEN SweepNext([SwIdle EXCEPT !.prefixes = ListPrefixes(store),
                                             !.listed = {k[1] : k \in DOMAIN store}])
               ELSE [SwIdle EXCEPT !.pc = "done", !.store_error = TRUE, !.resp = SwResp(500)]
    /\ UNCHANGED <<store, now, ticks, nextId, up, upCreds, dl, sw>>

\* lines 31-46, second invocation
PeerGet(result) ==
    /\ peer.pc = "get"
    /\ LET got == get_object(store, metadata_key(peer.file_id), result)
           s == [peer EXCEPT !.checked_count = peer.checked_count + 1,
                             !.examined = peer.examined \cup {peer.file_id},
                             !.store_error = peer.store_error \/ got.code # "ok"]
       IN peer' = IF got.code # "ok" THEN SweepItemError(s)
                  ELSE IF SweepCheck(got.body, now) = "error" THEN SweepItemError(s)
                  ELSE IF SweepCheck(got.body, now) = "expired"
                  THEN [s EXCEPT !.pc = "list", !.body = got.body, !.current_time = now,
                                 !.expired_seen = s.expired_seen \cup {peer.file_id}]
                  ELSE SweepNext(s)
    /\ UNCHANGED <<store, now, ticks, nextId, up, upCreds, dl, sw>>

\* lines 50-59, second invocation
PeerList(result) ==
    /\ peer.pc = "list"
    /\ peer' = IF result # "ok" THEN SweepItemError([peer EXCEPT !.store_error = TRUE])
               ELSE IF ObjectsToDelete(store, peer.file_id) = {} THEN SweepNext(peer)
               ELSE [peer EXCEPT !.pc = "delete",
                                 !.objects_to_delete = ObjectsToDelete(store, peer.file_id)]
    /\ UNCHANGED <<store, now, ticks, nextId, up, upCreds, dl, sw>>

\* lines 60-65, second invocation
PeerDelete(result) ==
    /\ peer.pc = "delete"
    /\ IF result = "ok"
       THEN /\ store' = DeleteObjects(store, peer.objects_to_delete)
            /\ peer' = SweepNext([peer EXCEPT !.deleted_count = peer.deleted_count + 1,
                                              !.purged = peer.purged \cup peer.objects_to_delete])
       ELSE /\ peer' = SweepItemError([peer EXCEPT !.store_error = TRUE])
            /\ UNCHANGED store
    /\ UNCHANGED <<now, ticks, nextId, up, upCreds, dl, sw>>
----------------------------------------------------------------------------
(* The clock *)

\* no handler invocation is in progress
Quiet ==
    /\ up.pc \in {"idle", "done"} /\ dl.pc \in {"idle", "done"}
    /\ sw.pc \in {"idle", "done"} /\ peer.pc \in {"idle", "done"}

\* a second passes at any moment; a day passes between invocations (a Lambda invocation is cut off after Timeout=30 seconds)
Tick(d) ==
    /\ ticks < MaxTicks
    /\ d = 1 \/ Quiet
    /\ now' = now + d
    /\ ticks' = ticks + 1
    /\ UNCHANGED <<store, nextId, up, upCreds, dl, sw, peer>>

Jumps == {1, RETENTION}

----------------------------------------------------------------------------
(* The system *)

Init ==
    /\ store = <<>>
    /\ now = 0
    /\ ticks = 0
    /\ nextId = 1
    /\ up = UpIdle
    /\ upCreds = {}
    /\ dl = DlIdle
    /\ sw = SwIdle
    /\ peer = SwIdle

Results == {"ok"} \cup ErrorCodes

\* requests that pass validation
GoodRequests ==
    { [parsed |-> TRUE, filename |-> f, content_type |-> "text/plain", file_size |-> IntV(100)] :
        f \in {"a.txt", "metadata.json"} }

\* request bodies of every shape: fields absent, empty, of the wrong type,
\* out of range; the requests that pass, one of them with the filename
\* "metadata.json"; and a body that json.loads rejects
FileSizes ==
    { NoSize, IntV(0), IntV(-1), IntV(100), IntV(MAX_FILE_SIZE), IntV(MAX_FILE_SIZE + 1),
      [type |-> "float", val |-> 100], [type |-> "float", val |-> MAX_FILE_SIZE + 1],
      [type |-> "str", val |-> 100], [type |-> "bool", val |-> 1] }

Requests ==
    { [parsed |-> TRUE, filename |-> f, content_type |-> c, file_size |-> z] :
        f \in {NoneV, "", "a.txt"},
        c \in {NoneV, "", "text/plain", "application/json"},
        z \in FileSizes }
    \cup GoodRequests
    \cup {[NoReq EXCEPT !.parsed = FALSE]}

UploadSteps ==
    \/ \E req \in GoodRequests : UploadReceive(req)
    \/ UploadStamp
    \/ \E r \in Results : UploadPut(r)
    \/ \E b \in BOOLEAN : UploadPresign(b)

ClientSteps == \E c \in upCreds, b \in ClientBodies : ClientPut(c, b)

DownloadSteps ==
    \/ \E k \in EventKinds, id \in 1..MaxIds : DownloadReceive(k, id)
    \/ \E r \in Results : DownloadGet(r)
    \/ \E r \in Results : DownloadHead(r)
    \/ \E b \in BOOLEAN : DownloadPresign(b)

SweepSteps ==
    \/ \E r \in Results : SweepStart(r)
    \/ \E r \in Results : SweepGet(r)
    \/ \E r \in Results : SweepList(r)
    \/ \E r \in Results : SweepDelete(r)

ClockSteps == \E d \in Jumps : Tick(d)

\* the Download Handler against uploads, clients and the clock
NextDownload == UploadSteps \/ ClientSteps \/ DownloadSteps \/ ClockSteps
SpecDownload == Init /\ [][NextDownload]_vars

\* the Cleanup Sweeper against uploads, clients and the clock
NextSweep == UploadSteps \/ ClientSteps \/ SweepSteps \/ ClockSteps
SpecSweep == Init /\ [][NextSweep]_vars

\* the Upload Handler alone, on requests of every shape
NextUpload ==
    \/ \E req \in Requests : UploadReceive(req)
    \/ UploadStamp
    \/ \E r \in Results : UploadPut(r)
    \/ \E b \in BOOLEAN : UploadPresign(b)
SpecUpload == Init /\ [][NextUpload]_vars

\* a download racing a sweep over the items of accepted uploads, the
\* clients sending plain bytes, every call to the store and to the signer
\* succeeding
NextRace ==
    \/ \E req \in GoodRequests : UploadReceive(req)
    \/ UploadStamp
    \/ UploadPut("ok")
    \/ UploadPresign(TRUE)
    \/ \E c \in upCreds : ClientPut(c, RawBytes)
    \/ \E id \in 1..MaxIds : DownloadReceive("ok", id)
    \/ DownloadGet("ok")
    \/ DownloadHead("ok")
    \/ DownloadPresign(TRUE)
    \/ SweepStart("ok")
    \/ SweepGet("ok")
    \/ SweepList("ok")
    \/ SweepDelete("ok")
    \/ ClockSteps
SpecRace == Init /\ [][NextRace]_vars

\* no sweep is in progress
SweepsQuiet == sw.pc \in {"idle", "done"} /\ peer.pc \in {"idle", "done"}

\* two sweeps, back to back or interleaved at any step, every call to the
\* store succeeding; uploads, clients and the clock act between the sweeps
NextTwoSweeps ==
    \/ SweepsQuiet /\ \E req \in GoodRequests : UploadReceive(req)
    \/ SweepsQuiet /\ UploadStamp
    \/ SweepsQuiet /\ UploadPut("ok")
    \/ SweepsQuiet /\ UploadPresign(TRUE)
    \/ SweepsQuiet /\ ClientSteps
    \/ SweepsQuiet /\ ClockSteps
    \/ SweepStart("ok")
    \/ SweepGet("ok")
    \/ SweepList("ok")
    \/ SweepDelete("ok")
    \/ PeerStart("ok")
    \/ PeerGet("ok")
    \/ PeerList("ok")
    \/ PeerDelete("ok")
SpecTwoSweeps == Init /\ [][NextTwoSweeps]_vars

\* the sweeper's store calls all succeed
SweepOkSteps ==
    \/ SweepStart("ok")
    \/ SweepGet("ok")
    \/ SweepList("ok")
    \/ SweepDelete("ok")

\* the Cleanup Sweeper under its schedule: the rule fires every hour without
\* end (ScheduleExpression rate(1 hour)), an invocation that has started
\* runs its loop to the end, and the store answers its calls
NextReclaim == UploadSteps \/ ClientSteps \/ SweepOkSteps \/ ClockSteps
SpecReclaim ==
    /\ Init /\ [][NextReclaim]_vars
    /\ WF_vars(SweepStart("ok"))
    /\ WF_vars(SweepGet("ok"))
    /\ WF_vars(SweepList("ok"))
    /\ WF_vars(SweepDelete("ok"))

\* all handlers
Next == UploadSteps \/ ClientSteps \/ DownloadSteps \/ SweepSteps \/ ClockSteps
Spec == Init /\ [][Next]_vars

----------------------------------------------------------------------------
(* Download Handler: expiry, missing content, expired against missing *)

\* the Download Handler has answered a request for which it read a metadata
\* record carrying a timestamp T as expiration_time
DlAnsweredWithT ==
    /\ dl.pc = "done"
    /\ dl.checked
    /\ dl.metadata.expiration_time.kind = "iso"

\* the credential of a 200 response: a presigned GET for the item's content key
DlCredentialFor(file_id, filename) ==
    /\ dl.resp.download_url # NoCred
    /\ dl.resp.download_url.key = <<file_id, filename>>

\* C1: for an item whose metadata record has expiration_time T, a Download
\* Handler invocation whose expiry check runs before T, which finds the
\* content object present and none of whose store or signing calls fails,
\* returns 200 with a download credential for the content key; one whose
\* expiry check runs after T returns 404 and issues no credential.
C1_ExpiryRoundTrip ==
    DlAnsweredWithT =>
        /\ (/\ dl.check_time < dl.metadata.expiration_time.t
            /\ dl.headed /\ dl.content_present /\ ~dl.call_failed)
           => /\ dl.resp.statusCode = 200
              /\ DlCredentialFor(dl.file_id, dl.metadata.original_filename)
        /\ dl.check_time > dl.metadata.expiration_time.t
           => /\ dl.resp.statusCode = 404
              /\ dl.resp.download_url = NoCred
              /\ ~dl.headed

\* C1, first case reached: a 200 with a credential, the check before T
C1_Witness ==
    /\ DlAnsweredWithT
    /\ dl.check_time < dl.metadata.expiration_time.t
    /\ dl.content_present
    /\ dl.resp.statusCode = 200
    /\ DlCredentialFor(dl.file_id, "a.txt")

\* C1, second case reached: a 404 for an item whose record and content are
\* both still in the bucket, the check after T
C1_ExpiredReached ==
    /\ DlAnsweredWithT
    /\ dl.check_time > dl.metadata.expiration_time.t
    /\ {metadata_key(dl.file_id), s3_key(dl.file_id, "a.txt")} \subseteq DOMAIN store
    /\ dl.resp.statusCode = 404

\* C2 as claimed: when the metadata record exists and is not expired and
\* the content object is absent (the existence check itself not failing),
\* the response is 404 with error "File content not found"
C2_ContentNotFound ==
    (/\ dl.pc = "done"
     /\ dl.checked
     /\ dl.headed /\ ~dl.content_present /\ ~dl.call_failed)
    => /\ dl.resp.statusCode = 404
       /\ dl.resp.error = "File content not found"

\* the response to a request for an identifier without a metadata record
\* (lines 110-117)
NotFoundResponse == DlResp(404, "File not found")

\* C3 as claimed: the response for an identifier whose metadata record
\* (one the Upload Handler wrote) is expired is the response for an
\* identifier that has no metadata record
C3_ExpiredLooksMissing ==
    (/\ DlAnsweredWithT
     /\ dl.metadata.upload_time.kind = "iso"
     /\ dl.check_time > dl.metadata.expiration_time.t)
    => dl.resp = NotFoundResponse

----------------------------------------------------------------------------
(* Cleanup Sweeper: what a sweep deletes, what it leaves, failure isolation *)

\* C4: after a sweep that meets no store error, for every identifier whose
\* metadata record the sweep read and found expired, the metadata record
\* has been deleted and every key under the identifier's prefix has been
\* deleted by the sweep (a key is there again only if a client put it back
\* after the deletion).
C4_ExpiredItemsDeleted ==
    (sw.pc = "done" /\ ~sw.store_error) =>
        /\ sw.resp.statusCode = 200
        /\ \A id \in sw.expired_seen :
              /\ metadata_key(id) \in sw.purged
              /\ KeysUnder(store, id) \subseteq sw.purged

\* C4 reached: a sweep without store error has removed an expired item's
\* metadata record and content object, and nothing is left under its prefix
C4_Witness ==
    /\ sw.pc = "done" /\ ~sw.store_error
    /\ \E id \in sw.expired_seen :
          /\ {metadata_key(id), s3_key(id, "a.txt")} \subseteq sw.purged
          /\ KeysUnder(store, id) = {}

\* the bytes are a metadata record with a timestamp that lies before t
ReadableAndExpired(body, t) ==
    /\ body.kind = "json"
    /\ body.doc.expiration_time.kind = "iso"
    /\ t > body.doc.expiration_time.t

\* C5: a step of the sweeper creates no key and changes no object, and it
\* removes a key only if the key lies under the prefix of the identifier it
\* is processing, whose metadata record it read as a record with a
\* timestamp earlier than the time of its check.
C5_DeletesOnlyExpired ==
    [][sw' # sw =>
          /\ DOMAIN store' \subseteq DOMAIN store
          /\ \A k \in DOMAIN store :
                IF k \in DOMAIN store' THEN store'[k] = store[k]
                ELSE /\ k[1] = sw.file_id
                     /\ ReadableAndExpired(sw.body, sw.current_time)]_vars

\* C5 reached: a sweep has deleted an item and has left in place the keys
\* of an identifier whose metadata record is not a JSON document
C5_Witness ==
    /\ sw.pc = "done"
    /\ sw.purged # {}
    /\ \E id \in sw.examined :
          /\ metadata_key(id) \in DOMAIN store
          /\ store[metadata_key(id)].kind = "raw"

\* C6: once the processing of an identifier has failed, the sweep goes on:
\* it ends with status 200 having examined every identifier it enumerated,
\* and each identifier it found expired and processed without failure has
\* its keys deleted.
C6_FailureIsolation ==
    (sw.failed # {}) =>
        /\ sw.resp.statusCode \in {0, 200}
        /\ sw.pc = "done" =>
              /\ sw.resp.statusCode = 200
              /\ sw.examined = sw.listed
              /\ sw.checked_count = Cardinality(sw.listed)
              /\ \A id \in sw.expired_seen \ sw.failed :
                    /\ metadata_key(id) \in sw.purged
                    /\ KeysUnder(store, id) \subseteq sw.purged

\* C6 reached: the first identifier failed, the second was deleted, status 200
C6_Witness ==
    /\ sw.pc = "done"
    /\ sw.resp.statusCode = 200
    /\ 1 \in sw.failed
    /\ metadata_key(2) \in sw.purged

----------------------------------------------------------------------------
(* Upload Handler: validation, and the order of the metadata write *)

\* the handler has answered a request whose body it could parse
UpAnswered == up.pc = "done" /\ up.req.parsed

\* the ways a request fails a check of the handler
FilenameMissing(req) == req.filename \in {NoneV, ""}
ContentTypeMissing(req) == req.content_type \in {NoneV, ""}
SizeUnusable(req) == req.file_size.type \in {"none", "float", "str"} \/ req.file_size.val = 0
Oversized(req) == req.file_size.val > MAX_FILE_SIZE
Disallowed(req) == req.content_type \notin ALLOWED_CONTENT_TYPES

\* C7: a request that fails a check of the handler, in particular one whose
\* file_size exceeds the maximum or whose content_type is not in the
\* allow-list, is answered 400 without a credential and without a metadata
\* write; and a 400 is the answer of the first step of an invocation, which
\* leaves the bucket and the issued credentials as they were.
C7_RejectedWithoutWrite ==
    /\ [](UpAnswered /\ (\/ FilenameMissing(up.req) \/ ContentTypeMissing(up.req)
                         \/ SizeUnusable(up.req) \/ Oversized(up.req)
                         \/ Disallowed(up.req))
          => /\ up.resp.statusCode = 400
             /\ up.resp.upload_data = NoCred
             /\ up.resp.file_id = 0
             /\ ~up.put_ok)
    /\ [][(up' # up /\ up'.resp.statusCode = 400)
          => /\ up.pc \in {"idle", "done"}
             /\ store' = store
             /\ upCreds' = upCreds
             /\ nextId' = nextId]_vars

\* C7 reached: an oversized file of an allowed type is refused
C7_Witness ==
    /\ UpAnswered
    /\ up.req.filename = "a.txt"
    /\ up.req.content_type = "text/plain"
    /\ up.req.file_size = IntV(MAX_FILE_SIZE + 1)
    /\ up.resp.statusCode = 400
    /\ up.resp.error = "File size exceeds the maximum limit"

\* file_size is a positive integer
PositiveInteger(v) == v.type = "int" /\ v.val > 0

\* C8 as claimed: a request whose file_size is not a positive integer gets no
\* further than validation: it is answered 400 and no metadata is written
C8_PositiveSizeOnly ==
    (up.pc # "idle" /\ up.req.parsed /\ ~PositiveInteger(up.req.file_size))
    => /\ up.pc = "done"
       /\ up.resp.statusCode = 400
       /\ ~up.put_ok

\* the checks in the order claimed, each with its error
ChecksInOrder(req) ==
    << <<FilenameMissing(req), "Filename is required">>,
       <<ContentTypeMissing(req), "Content type is required">>,
       <<SizeUnusable(req), "Valid file size is required">>,
       <<Oversized(req), "File size exceeds the maximum limit">>,
       <<Disallowed(req), "Content type is not allowed">> >>

Violated(req) == {i \in 1..5 : ChecksInOrder(req)[i][1]}

\* C9: the handler's checks are filename present, content_type present,
\* file_size usable (present, an int, not zero: the test behind "Valid file
\* size is required"), file_size <= maximum, content_type in the
\* allow-list; a request that violates any of them is answered 400 with the
\* error of the first one it violates in that order.
C9_FirstViolatedCheck ==
    (UpAnswered /\ Violated(up.req) # {}) =>
        /\ up.resp.statusCode = 400
        /\ \E i \in Violated(up.req) :
              /\ \A j \in Violated(up.req) : i <= j
              /\ up.resp.error = ChecksInOrder(up.req)[i][2]

\* C9 reached: an oversized file of a type not allowed gets the size error
C9_Witness ==
    /\ UpAnswered
    /\ Violated(up.req) = {4, 5}
    /\ up.resp.statusCode = 400
    /\ up.resp.error = "File size exceeds the maximum limit"

\* C10: the credential is generated only after the metadata put succeeded:
\* when the handler is about to sign, and whenever it has answered 200, the
\* put of this invocation has succeeded and the record is in the bucket;
\* every credential ever issued is for an identifier whose record was
\* written.
C10_MetadataBeforeCredential ==
    /\ up.pc = "presign" => up.put_ok /\ metadata_key(up.file_id) \in DOMAIN store
    /\ up.resp.statusCode = 200 =>
          /\ up.put_ok
          /\ up.resp.upload_data \in upCreds
          /\ up.resp.upload_data.key[1] = up.resp.file_id
          /\ metadata_key(up.resp.file_id) \in DOMAIN store
    /\ \A c \in upCreds : metadata_key(c.key[1]) \in DOMAIN store

\* C10 reached: a 200 with a credential, the record in the bucket
C10_Witness ==
    /\ up.pc = "done"
    /\ up.resp.statusCode = 200
    /\ up.resp.upload_data \in upCreds
    /\ metadata_key(up.resp.file_id) \in DOMAIN store

----------------------------------------------------------------------------
(* Metadata records: write-once, their key, the identifiers *)

\* C11 as claimed: a metadata record is write-once: a step that leaves the
\* record at {file_id}/metadata.json in the bucket leaves its content as it
\* was, and the record appears in the bucket only by the put of the upload
\* invocation that minted file_id, with the metadata of that invocation
C11_WriteOnce ==
    [][\A id \in 1..MaxIds :
          LET k == metadata_key(id) IN
          /\ (k \in DOMAIN store /\ k \in DOMAIN store') => store'[k] = store[k]
          /\ (k \notin DOMAIN store /\ k \in DOMAIN store')
             => /\ up.pc = "put" /\ up.file_id = id
                /\ store'[k] = json_dumps(up.metadata)]_vars

\* C12 as claimed: the content key of every credential the Upload Handler
\* issues differs from the metadata key of the same identifier
C12_SeparateKeys ==
    /\ \A c \in upCreds : c.key # metadata_key(c.key[1])
    /\ up.resp.statusCode = 200
       => up.resp.upload_data.key # metadata_key(up.resp.file_id)

----------------------------------------------------------------------------
(* The 200 response of the Upload Handler, and the round trip *)

\* the Upload Handler is between the minting of the identifier and its return
UpInFlight(u) == u.pc \in {"stamp", "put", "presign"}

C15_RoundTrip ==
    (/\ dl.pc = "done" /\ dl.ready /\ ~dl.call_failed
     /\ up.pc = "done" /\ up.resp.file_id = dl.file_id
     /\ now < up.resp.expiration_time.t)
    => /\ dl.resp.statusCode = 200
       /\ dl.resp.filename = up.req.filename
       /\ dl.resp.content_type = up.req.content_type
       /\ dl.resp.expiration_time = up.resp.expiration_time

\* the round trip as it goes for the filename "a.txt"
C15_RoundTripReached ==
    /\ up.pc = "done" /\ up.resp.statusCode = 200
    /\ dl.pc = "done" /\ dl.ready /\ dl.file_id = up.resp.file_id
    /\ dl.resp.statusCode = 200
    /\ dl.resp.filename = "a.txt" /\ up.req.filename = "a.txt"
    /\ dl.resp.content_type = "text/plain"
    /\ dl.resp.expiration_time = up.resp.expiration_time

----------------------------------------------------------------------------
(* Download Handler: missing records, missing parameters, unreadable
   expiration times *)

\* C16: a get_object call (one that does not itself fail) for the metadata
\* key of an identifier that has no record in the bucket is answered
\* NoSuchKey, and that answer ends the invocation at once: 404 with error
\* "File not found", no retry, no other store call; it is the first and
\* only store read unless transient failures came before it.
C16_MissingIsNotFound ==
    /\ [](dl.answer = "NoSuchKey"
          => /\ dl.pc = "done"
             /\ dl.resp = NotFoundResponse
             /\ ~dl.checked /\ ~dl.headed
             /\ dl.calls = dl.retries + 1)
    /\ [][(/\ dl.pc = "get" /\ dl' # dl
           /\ metadata_key(dl.file_id) \notin DOMAIN store
           /\ dl'.answer \notin ErrorCodes)
          => /\ dl'.answer = "NoSuchKey"
             /\ dl'.pc = "done"
             /\ dl'.resp = NotFoundResponse
             /\ dl'.calls = dl.calls + 1
             /\ dl.retries = 0 => dl'.calls = 1]_vars

\* C16 reached: a request for an identifier without a record was answered
\* 404 "File not found" after one get_object call
C16_Witness ==
    /\ dl.pc = "done" /\ dl.event = "ok"
    /\ metadata_key(dl.file_id) \notin DOMAIN store
    /\ dl.answer = "NoSuchKey"
    /\ dl.calls = 1 /\ dl.retries = 0
    /\ dl.resp = NotFoundResponse

\* C17 as claimed: a request without a file_id path parameter (pathParameters
\* absent, null, or without file_id) is answered 400 with no store access,
\* and no other request is answered 400
C17_MissingParameter ==
    dl.pc = "done" =>
        /\ dl.event # "ok" =>
              /\ dl.resp.statusCode = 400
              /\ dl.calls = 0 /\ dl.answer = "" /\ ~dl.headed
        /\ dl.resp.statusCode = 400 => dl.event # "ok"

\* the expiration_time of the record read is missing or is no timestamp
Unparseable(ts) == ts.kind \in {"none", "bad"}

\* the response to a request for an expired item (lines 128-135)
ExpiredResponse == DlResp(404, "File has expired")

\* C18: once the handler has read a metadata record whose expiration_time is
\* missing or cannot be parsed, it goes no further: it answers 404 as for
\* an expired item, makes no existence check and issues no credential.
C18_UnparseableIsExpired ==
    (dl.checked /\ Unparseable(dl.metadata.expiration_time))
    => /\ dl.pc = "done"
       /\ dl.resp.statusCode = 404
       /\ dl.resp = ExpiredResponse
       /\ dl.resp.download_url = NoCred
       /\ ~dl.headed

\* C18 reached: a record whose expiration_time is no timestamp, and a 404
C18_Witness ==
    /\ dl.pc = "done" /\ dl.checked
    /\ dl.metadata.expiration_time = BadTs
    /\ store[metadata_key(dl.file_id)].doc.expiration_time = BadTs
    /\ dl.resp.statusCode = 404

\* C18, the other case reached: a record without expiration_time, and a 404
C18_MissingReached ==
    /\ dl.pc = "done" /\ dl.checked
    /\ dl.metadata.expiration_time = MissingTs
    /\ dl.resp.statusCode = 404

----------------------------------------------------------------------------
(* The retrying store operations *)

\* C19: s3_get_with_retry and s3_put_with_retry call the store at most 3
\* times; while they are in their loop every call so far failed with a
\* transient error and was retried; and once the last call has failed with
\* a transient error and the loop is left, it was the third call and the
\* error was raised: the handler answers 500, having got neither a
\* response (no record read, no record written) nor an empty result (no
\* "File not found").  For each transient code the first two failures are
\* retried and the third is raised.
C19_TransientBounded ==
    /\ dl.calls <= DOWNLOAD_MAX_RETRIES /\ up.calls <= MAX_RETRIES
    /\ dl.pc = "get" => dl.retries < DOWNLOAD_MAX_RETRIES /\ dl.calls = dl.retries
    /\ up.pc = "put" => up.retries < MAX_RETRIES /\ up.calls = up.retries
    /\ (dl.answer \in TransientCodes /\ dl.pc # "get")
       => /\ dl.pc = "done"
          /\ dl.calls = DOWNLOAD_MAX_RETRIES
          /\ dl.call_failed
          /\ dl.resp.statusCode = 500
          /\ ~dl.checked /\ ~dl.headed
    /\ (up.answer \in TransientCodes /\ up.pc # "put")
       => /\ up.pc = "done"
          /\ up.calls = MAX_RETRIES
          /\ up.resp.statusCode = 500
          /\ ~up.put_ok
          /\ up.resp.upload_data = NoCred
    /\ \A c \in TransientCodes :
          /\ \A r \in 0..(DOWNLOAD_MAX_RETRIES - 2) : GetAfterError(c, r) = "retry"
          /\ GetAfterError(c, DOWNLOAD_MAX_RETRIES - 1) = "raise"
          /\ \A r \in 0..(MAX_RETRIES - 2) : PutAfterError(c, r) = "retry"
          /\ PutAfterError(c, MAX_RETRIES - 1) = "raise"

\* C19 reached: a download of an identifier whose record is in the bucket
\* and an upload have both ended in 500 after three calls that failed with
\* SlowDown
C19_Witness ==
    /\ dl.pc = "done" /\ dl.answer = "SlowDown" /\ dl.calls = 3
    /\ metadata_key(dl.file_id) \in DOMAIN store
    /\ dl.resp.statusCode = 500
    /\ up.pc = "done" /\ up.answer = "SlowDown" /\ up.calls = 3
    /\ up.resp.statusCode = 500
    /\ metadata_key(2) \notin DOMAIN store

\* C20: a NoSuchKey answer to a get ends the loop with an empty result (the
\* handler answers "File not found"), and an error that is neither NoSuchKey
\* nor transient ends the loop of a get or a put by being raised (the
\* handler answers 500); either is the only call of the loop unless
\* transient failures were retried before it.  A loop that has made a call
\* and makes another has got a transient error from the last one.
C20_OnlyTransientRetried ==
    /\ dl.answer = "NoSuchKey"
       => /\ dl.pc = "done" /\ dl.resp = NotFoundResponse
          /\ dl.calls = dl.retries + 1
    /\ dl.answer \in ErrorCodes \ TransientCodes
       => /\ dl.pc = "done" /\ dl.call_failed
          /\ dl.resp.statusCode = 500
          /\ dl.calls = dl.retries + 1
    /\ up.answer \in ErrorCodes \ TransientCodes
       => /\ up.pc = "done" /\ ~up.put_ok
          /\ up.resp.statusCode = 500
          /\ up.calls = up.retries + 1
    /\ (dl.pc = "get" /\ dl.calls > 0) => dl.answer \in TransientCodes
    /\ (up.pc = "put" /\ up.calls > 0) => up.answer \in TransientCodes
    /\ \A r \in 0..(MAX_RETRIES - 1) :
          /\ GetAfterError("NoSuchKey", r) = "none"
          /\ \A c \in {"AccessDenied", "NoSuchBucket", "InvalidRequest"} :
                GetAfterError(c, r) = "raise" /\ PutAfterError(c, r) = "raise"

\* C20 reached: a get answered NoSuchKey and a put answered AccessDenied,
\* each the one call of its loop
C20_Witness ==
    /\ dl.pc = "done" /\ dl.answer = "NoSuchKey" /\ dl.calls = 1
    /\ dl.resp = NotFoundResponse
    /\ up.pc = "done" /\ up.answer = "AccessDenied" /\ up.calls = 1
    /\ up.resp.statusCode = 500

\* C20, a third case reached: a get refused with AccessDenied at its first call
C20_GetRefusedReached ==
    /\ dl.pc = "done" /\ dl.answer = "AccessDenied" /\ dl.calls = 1
    /\ dl.resp.statusCode = 500

----------------------------------------------------------------------------
(* Upload Handler: failures after and during the metadata write, its effect
   on the bucket *)

\* C21: a step by which the handler, the metadata put done, fails to sign
\* answers 500 without a credential and without a file_id, issues no
\* credential, and leaves the bucket as it is: the record written for the
\* identifier is still there.
C21_NoRollback ==
    [][(up.pc = "presign" /\ up.put_ok /\ up'.pc = "done" /\ up'.resp.statusCode # 200)
       => /\ up'.resp = UpResp(500, "An internal server error occurred")
          /\ up'.resp.upload_data = NoCred
          /\ upCreds' = upCreds
          /\ store' = store
          /\ metadata_key(up.file_id) \in DOMAIN store'
          /\ store'[metadata_key(up.file_id)] = json_dumps(up.metadata)]_vars

\* C21 reached: the first upload got 500 after its put succeeded; its record
\* is in the bucket and no credential exists
C21_Witness ==
    /\ up.pc = "done" /\ up.put_ok
    /\ up.resp.statusCode = 500
    /\ upCreds = {}
    /\ metadata_key(1) \in DOMAIN store
    /\ store[metadata_key(1)].doc.original_filename = up.req.filename

\* the bytes are a record as the Upload Handler writes it: both timestamps
\* are ISO strings
HandlerRecord(body) ==
    /\ body.kind = "json"
    /\ body.doc.upload_time.kind = "iso"
    /\ body.doc.expiration_time.kind = "iso"

\* C24 as claimed: in the record the Upload Handler puts, expiration_time is
\* upload_time plus 24 hours exactly
C24_ExpiryIsUploadPlusDay ==
    [][(up.pc = "put" /\ store' # store /\ up' # up)
       => LET doc == store'[metadata_key(up.file_id)].doc IN
          /\ HandlerRecord(store'[metadata_key(up.file_id)])
          /\ doc.expiration_time.t = doc.upload_time.t + RETENTION]_vars

----------------------------------------------------------------------------
(* Download Handler: the validity of its credentials, its effect on the
   bucket *)

\* C25 as claimed: no credential the Download Handler issues for an item is
\* valid at a time after the item's expiration_time: the validity window of
\* the credential of a 200 response ends no later than the expiration_time
\* of the record the handler read
C25_NoCredentialPastExpiry ==
    (dl.pc = "done" /\ dl.resp.statusCode = 200
     /\ dl.metadata.expiration_time.kind = "iso")
    => dl.resp.download_url.expires <= dl.metadata.expiration_time.t

----------------------------------------------------------------------------
(* Upload Handler: what a successful invocation leaves in the bucket *)

\* C26 as claimed: a successful Upload Handler invocation changes the store
\* by exactly one key, {file_id}/metadata.json, and writes no content
\* object: when it answers 200 the metadata record exists and the content
\* key {file_id}/{filename} is absent
C26_MetadataOnly ==
    [][(up.pc = "presign" /\ up'.pc = "done" /\ up'.resp.statusCode = 200)
       => /\ store' = store
          /\ metadata_key(up.file_id) \in DOMAIN store'
          /\ s3_key(up.file_id, up.req.filename) \notin DOMAIN store']_vars


\* C27: when the metadata write of an accepted request fails (put_object
\* raises a non-transient error, or a transient one on the last of the
\* MAX_RETRIES attempts) the Upload Handler responds 500 with the generic
\* error, issues no upload credential, returns no file_id and leaves the
\* bucket as it was
C27_FailedWriteIsServerError ==
    [][(/\ up.pc = "put" /\ up' # up
        /\ up'.answer \in ErrorCodes
        /\ (up'.answer \notin TransientCodes \/ up'.calls = MAX_RETRIES))
       => /\ up'.pc = "done"
          /\ up'.resp = UpResp(500, "An internal server error occurred")
          /\ up'.resp.upload_data = NoCred
          /\ up'.resp.file_id = 0
          /\ ~up'.put_ok
          /\ upCreds' = upCreds
          /\ store' = store]_vars

C27_Witness ==
    /\ up.pc = "done" /\ up.req \in GoodRequests
    /\ up.answer = "AccessDenied" /\ up.calls = 1
    /\ up.resp.statusCode = 500 /\ up.resp.file_id = 0
    /\ upCreds = {}


\* C28: the Download Handler is read-only on the store: no step of an
\* invocation, whatever the request and the outcome, creates, overwrites or
\* deletes a key, so keys and contents are the same before and after it
C28_DownloadReadOnly ==
    [][dl' # dl => store' = store]_vars

C28_Witness ==
    /\ dl.pc = "done" /\ dl.resp.statusCode = 200
    /\ dl.resp.download_url.key # metadata_key(dl.file_id)
    /\ DOMAIN store = {metadata_key(dl.file_id), dl.resp.download_url.key}
    /\ store[metadata_key(dl.file_id)] = json_dumps(dl.metadata)

\* a second outcome of C28: an invocation that ended 404 left the record of
\* another item in place
C28_NotFoundReached ==
    /\ dl.pc = "done" /\ dl.resp.statusCode = 404
    /\ DOMAIN store # {}

----------------------------------------------------------------------------
(* A download racing a sweep *)

\* C23: in every interleaving of a download with a sweep the Download
\* Handler answers 200 only if the content object existed at the moment of
\* its own existence check (and its expiry check had passed); the witness
\* is the interleaving in which the sweep deletes the content object after
\* that check, so the credential of the 200 response points at a key that
\* is gone while the credential is still valid
C23_ExistedWhenChecked ==
    (dl.pc \in {"presign", "done"} /\ (dl.pc = "done" => dl.resp.statusCode = 200))
    => /\ dl.checked /\ dl.headed /\ dl.content_present
       /\ ~(dl.check_time > dl.metadata.expiration_time.t)

C23_Witness ==
    /\ dl.pc = "done" /\ dl.resp.statusCode = 200
    /\ dl.headed /\ dl.content_present
    /\ dl.resp.download_url.key = s3_key(dl.file_id, "a.txt")
    /\ dl.resp.download_url.key \notin DOMAIN store
    /\ metadata_key(dl.file_id) \notin DOMAIN store
    /\ dl.resp.download_url.key \in sw.purged
    /\ now < dl.resp.download_url.expires

\* C23, the race inside the invocation: the sweep has deleted the content
\* object between the existence check and the signing
C23_DeletedBeforeSigning ==
    /\ dl.pc = "presign" /\ dl.content_present
    /\ s3_key(dl.file_id, dl.metadata.original_filename) \in sw.purged
    /\ s3_key(dl.file_id, dl.metadata.original_filename) \notin DOMAIN store

----------------------------------------------------------------------------
(* Two sweeps without coordination *)

\* the identifier's metadata record is in the bucket, readable, and expired
\* at time t
ExpiredReadable(s, file_id, t) ==
    /\ metadata_key(file_id) \in DOMAIN s
    /\ ReadableAndExpired(s[metadata_key(file_id)], t)

\* the bucket a single sweep evaluated at time t leaves: the keys of the
\* expired readable items gone, every other key unchanged
SingleSweep(s, t) == DeleteObjects(s, {k \in DOMAIN s : ExpiredReadable(s, k[1], t)})

C29_BothSawExpired ==
    /\ sw.pc = "done" /\ peer.pc = "done"
    /\ \E id \in sw.expired_seen \cap peer.expired_seen :
          /\ metadata_key(id) \in sw.purged
          /\ metadata_key(id) \notin peer.purged

\* C29, back to back: the second sweep, at a later time, deleted an item the
\* first had found live
C29_BackToBackReached ==
    /\ sw.pc = "done" /\ peer.pc = "done"
    /\ \E id \in peer.examined \ (peer.expired_seen \cup peer.failed) :
          metadata_key(id) \in sw.purged

----------------------------------------------------------------------------
(* Reclaiming of metadata records *)

\* the Upload Handler has answered 200 for file_id, the metadata record's
\* key is in the bucket, and the clock is past the expiration_time the
\* handler wrote
RecordDue(file_id) ==
    /\ up.pc = "done" /\ up.resp.statusCode = 200
    /\ up.resp.file_id = file_id
    /\ metadata_key(file_id) \in DOMAIN store
    /\ now > up.resp.expiration_time.t

\* C22 as claimed: every metadata record written to the store is eventually
\* deleted by the Cleanup Sweeper, once time has advanced past its
\* expiration_time, sweeps keeping being invoked and their store calls
\* succeeding
C22_EventuallyReclaimed ==
    \A file_id \in 1..MaxIds :
        RecordDue(file_id) ~> (metadata_key(file_id) \notin DOMAIN store)

\* the same for the items whose content key is not the metadata key
C22_ReclaimedUnlessOverwritten ==
    \A file_id \in 1..MaxIds :
        (RecordDue(file_id) /\ up.req.filename = "a.txt")
            ~> (metadata_key(file_id) \notin DOMAIN store)

====
